---------------------------- MODULE Spec2Model ----------------------------
(***************************************************************************)
(* A model of ReaDaisy (readaisy.py) and its predecessor daisy-extract     *)
(* (extract.py): the navigation tree builder get_smils, the segment        *)
(* extractors get_audio_files / get_audio, the per-book timeline assembly  *)
(* process_books / process_book, the filename sanitizer make_safe_filename *)
(* and the main loop over the navigation documents.                        *)
(*                                                                         *)
(* Strings are sequences of character codes (ord values).  Times are exact *)
(* decimals in the code; the model keeps them as integers of one unit.     *)
(***************************************************************************)
EXTENDS Integers, Sequences, FiniteSets, TLC

VARIABLES
    \* get_smils (SpecTree)
    headings,       \* the flat list ncc.find_all(["h1","h2","h3"]): levels
    smil_result,    \* what get_smils returned
    tpc,            \* "start" | "done"
    \* make_safe_filename (SpecSan)
    filename,       \* the argument
    safe,           \* make_safe_filename(filename)
    safe2,          \* make_safe_filename(safe)
    spc,            \* "start" | "once" | "twice"
    \* get_audio_files / get_audio (SpecSeg)
    seg_tags,       \* the audio elements of one synchronization document
    seg_offset,     \* the start_time argument
    extract_result, \* what extract.py's get_audio_files returned or raised
    readaisy_result,\* what readaisy.py's get_audio returned or raised
    xpc,            \* "start" | "done": get_audio_files was called
    rpc,            \* "start" | "done": get_audio was called
    \* main / process_books / process_book (Spec, SpecBook)
    scenario,       \* which input directory is read: "run" | "book"
    variant,        \* which program runs: "extract" | "readaisy"
    ncc_left,       \* ncc_files still to visit
    smils,          \* get_smils(ncc_file) of the current NCC.HTML
    book_start_number,
    bi,             \* position in enumerate(smils): the current book
    ci,             \* position in enumerate(book.children): the chapter
    si,             \* position in enumerate(chapter.children)
    pc,             \* "main" | "books" | "book" | "chapter" | "sub" |
                    \* "write" | "raised" | "done"
    book_start,     \* get_start_time of the book's document
    audio_files,    \* the book's list under construction
    smil_docs,      \* the documents parsed for the current book, in order
    out_files,      \* files in the output tree: <<book index, ci, si>>
    written,        \* book indices whose marker table / project exists
    emitted,        \* the book indices given so far (book_dir created)
    raised,         \* the exception that left main(), if any
    \* the file names of one book's output directory (SpecNames)
    name_variant,   \* which program names the files: "extract" | "readaisy"
    name_book,      \* the book's Smil with the titles of its sections
    name_ci,        \* position in enumerate(book.children, start=1)
    name_si,        \* position in enumerate(chapter.children, start=1)
    name_pc,        \* "book" | "chapter" | "sub" | "write"
    dir_files,      \* the names of the files in the book's output directory
    copies          \* how many times copy_audio_file was called

treeVars == <<headings, smil_result, tpc>>
sanVars  == <<filename, safe, safe2, spc>>
segVars  == <<seg_tags, seg_offset, extract_result, readaisy_result, xpc, rpc>>
runVars  == <<scenario, variant, ncc_left, smils, book_start_number, bi, ci,
              si, pc, book_start, audio_files, smil_docs, out_files, written,
              emitted, raised>>
nameVars == <<name_variant, name_book, name_ci, name_si, name_pc, dir_files,
              copies>>
vars     == <<headings, smil_result, tpc, filename, safe, safe2, spc,
              seg_tags, seg_offset, extract_result, readaisy_result, xpc, rpc,
              scenario, variant, ncc_left, smils, book_start_number, bi, ci,
              si, pc, book_start, audio_files, smil_docs, out_files, written,
              emitted, raised, name_variant, name_book, name_ci, name_si,
              name_pc, dir_files, copies>>

-----------------------------------------------------------------------------
(* Generic helpers *)

\* All sequences over S of length 0..n
SeqsUpTo(S, n) == UNION {[1..k -> S] : k \in 0..n}

RECURSIVE SortedSeq(_)
\* The elements of a finite set of integers, ascending
SortedSeq(S) ==
    IF S = {} THEN <<>>
    ELSE LET m == CHOOSE x \in S : \A y \in S : x <= y
         IN  <<m>> \o SortedSeq(S \ {m})

-----------------------------------------------------------------------------
(* Navigation tree builder: get_smils *)

MaxHeadings == 5

Levels == {1, 2, 3}

None == 0

\* State of the loop before the first heading: smil_list = [], current_h1 =
\* current_h2 = None.  Smil objects are identified by the position of the
\* heading they were built from; children[p] is the children list of the
\* Smil built from heading p.
GetSmilsInit(h) ==
    [smil_list  |-> <<>>,
     children   |-> [p \in 1..Len(h) |-> <<>>],
     current_h1 |-> None,
     current_h2 |-> None]

\* find_next_sibling(["h1","h2","h3"]) of heading i: the next heading of the
\* flat list, or None
NextSibling(h, i) == IF i < Len(h) THEN i + 1 ELSE None

\* A plausible slip: current_h2 is not reset on a level-1 heading
GetSmilsStepNoReset(h, i, st) ==
    CASE h[i] = 1 ->
           LET sib == NextSibling(h, i) IN
           IF sib # None /\ h[sib] # 1
           THEN [st EXCEPT !.current_h1 = i,
                           !.smil_list = Append(@, i)]
           ELSE st
      [] h[i] = 2 ->
           IF st.current_h1 # None
           THEN [st EXCEPT !.current_h2 = i,
                           !.children[st.current_h1] = Append(@, i)]
           ELSE [st EXCEPT !.current_h2 = i]
      [] h[i] = 3 ->
           IF st.current_h2 # None
           THEN [st EXCEPT !.children[st.current_h2] = Append(@, i)]
           ELSE st

\* A plausible slip: no lookahead, every level-1 heading starts a book
GetSmilsStepNoLookahead(h, i, st) ==
    CASE h[i] = 1 ->
           [st EXCEPT !.current_h1 = i,
                      !.smil_list = Append(@, i),
                      !.current_h2 = None]
      [] h[i] = 2 ->
           IF st.current_h1 # None
           THEN [st EXCEPT !.current_h2 = i,
                           !.children[st.current_h1] = Append(@, i)]
           ELSE [st EXCEPT !.current_h2 = i]
      [] h[i] = 3 ->
           IF st.current_h2 # None
           THEN [st EXCEPT !.children[st.current_h2] = Append(@, i)]
           ELSE st

\* One iteration of "for heading in headings"
GetSmilsStep(h, i, st) ==
    CASE h[i] = 1 ->
           LET sib == NextSibling(h, i) IN
           IF sib # None /\ h[sib] # 1
           THEN [st EXCEPT !.current_h1 = i,
                           !.smil_list = Append(@, i),
                           !.current_h2 = None]
           ELSE [st EXCEPT !.current_h2 = None]
      [] h[i] = 2 ->
           IF st.current_h1 # None
           THEN [st EXCEPT !.current_h2 = i,
                           !.children[st.current_h1] = Append(@, i)]
           ELSE [st EXCEPT !.current_h2 = i]
      [] h[i] = 3 ->
           IF st.current_h2 # None
           THEN [st EXCEPT !.children[st.current_h2] = Append(@, i)]
           ELSE st

RECURSIVE GetSmilsLoop(_, _, _)
GetSmilsLoop(h, i, st) ==
    IF i > Len(h) THEN st
    ELSE GetSmilsLoop(h, i + 1, GetSmilsStep(h, i, st))

\* A Smil object with its children, as nested records
Smil(level, p, kids) == [level |-> level, id |-> p, children |-> kids]

\* get_smils: the returned smil_list, each Smil with its children lists
get_smils(h) ==
    LET st == GetSmilsLoop(h, 1, GetSmilsInit(h))
        Sub(p)     == Smil(3, p, <<>>)
        Chapter(p) == Smil(2, p, [k \in 1..Len(st.children[p]) |->
                                     Sub(st.children[p][k])])
        Book(p)    == Smil(1, p, [k \in 1..Len(st.children[p]) |->
                                     Chapter(st.children[p][k])])
    IN  [k \in 1..Len(st.smil_list) |-> Book(st.smil_list[k])]

InitTree ==
    /\ headings \in SeqsUpTo(Levels, MaxHeadings)
    /\ smil_result = <<>>
    /\ tpc = "start"

CallGetSmils ==
    /\ tpc = "start"
    /\ smil_result' = get_smils(headings)
    /\ tpc' = "done"
    /\ UNCHANGED headings

ParkedTree == headings = <<>> /\ smil_result = <<>> /\ tpc = "parked"

-----------------------------------------------------------------------------
(* Filename sanitizer: make_safe_filename *)

MaxNameLen == 4

\* Character codes of the characters the code names: " ", "-", ".", ":",
\* "_", and the "{" and "}" of the format string
Space == 32
Hyphen == 45
Period == 46
Colon == 58
Underscore == 95
LBrace == 123
RBrace == 125

\* disallowed_ascii = [chr(i) for i in range(0, 32)]
disallowed_ascii == 0..31

\* A plausible slip: the colon is missing from the table
DisallowedNoColon == {60, 62, 34, 47, 92, 124, 63, 42, 94} \cup disallowed_ascii

\* disallowed_chars = '<>:"/\\|?*^{}'.format("".join(disallowed_ascii)):
\* "{}" is the format placeholder, replaced by the control characters, so
\* the braces themselves are not part of the set.
disallowed_chars ==
    {60, 62, 58, 34, 47, 92, 124, 63, 42, 94} \cup disallowed_ascii

RECURSIVE ReplaceColonSpace(_)
\* filename.replace(": ", " - "): leftmost, non-overlapping occurrences
ReplaceColonSpace(s) ==
    IF s = <<>> THEN <<>>
    ELSE IF Len(s) >= 2 /\ s[1] = Colon /\ s[2] = Space
         THEN <<Space, Hyphen, Space>> \o ReplaceColonSpace(SubSeq(s, 3, Len(s)))
         ELSE <<s[1]>> \o ReplaceColonSpace(Tail(s))

\* .translate(translator): every disallowed character becomes "_"
Translate(s) ==
    [i \in 1..Len(s) |-> IF s[i] \in disallowed_chars THEN Underscore ELSE s[i]]

\* A plausible slip: only one trailing character is removed
RStripOnce(s) ==
    IF s # <<>> /\ s[Len(s)] \in {Period, Space}
    THEN SubSeq(s, 1, Len(s) - 1)
    ELSE s

RECURSIVE RStrip(_)
\* .rstrip(". "): drop trailing periods and spaces
RStrip(s) ==
    IF s # <<>> /\ s[Len(s)] \in {Period, Space}
    THEN RStrip(SubSeq(s, 1, Len(s) - 1))
    ELSE s

make_safe_filename(s) == RStrip(Translate(ReplaceColonSpace(s)))

\* The characters the inputs are drawn from: a control character (tab, 9),
\* the two trimmed characters, the colon, another disallowed character
\* ("<", 60), both braces, the underscore and a plain letter ("a", 97).
InputChars ==
    {9, Space, Period, Colon, 60, LBrace, RBrace, Underscore, 97}

InitSan ==
    /\ filename \in SeqsUpTo(InputChars, MaxNameLen)
    /\ safe = <<>>
    /\ safe2 = <<>>
    /\ spc = "start"

Sanitize ==
    /\ spc = "start"
    /\ safe' = make_safe_filename(filename)
    /\ spc' = "once"
    /\ UNCHANGED <<filename, safe2>>

SanitizeAgain ==
    /\ spc = "once"
    /\ safe2' = make_safe_filename(safe)
    /\ spc' = "twice"
    /\ UNCHANGED <<filename, safe>>

ParkedSan == filename = <<>> /\ safe = <<>> /\ safe2 = <<>> /\ spc = "parked"

-----------------------------------------------------------------------------
(* Time codec and segment extractors: get_start_time, get_audio_files,     *)
(* get_audio                                                               *)

MaxAudioTags == 3

\* What a call gives: the exception it raised ("none" when it returned) and
\* the value it returned
Returned(v) == [raised |-> "none", value |-> v]
Raised(e)   == [raised |-> e, value |-> <<>>]

\* An <audio> element: src, clip-begin and clip-end ("npt=<seconds>s", kept
\* as the number of seconds), the number after the last "_" of id, and
\* whether Decimal() and int(.., base=16) accept the attribute texts
AudioTag(src, b, e, n, ok) ==
    [src |-> src, clip_begin |-> b, clip_end |-> e, id |-> n, parsable |-> ok]

RECURSIVE SumFields(_, _)
\* sum(Decimal(part) * (60**i) for i, part in enumerate(reversed(parts))),
\* from index i of the reversed list on
SumFields(rev, i) ==
    IF i > Len(rev) THEN 0
    ELSE rev[i] * (60 ^ (i - 1)) + SumFields(rev, i + 1)

Reversed(parts) == [i \in 1..Len(parts) |-> parts[Len(parts) + 1 - i]]

\* get_start_time: the ncc:totalElapsedTime meta element, split on ":"
get_start_time(doc) ==
    IF ~ doc.has_meta THEN Raised("RuntimeError")
    ELSE Returned(SumFields(Reversed(doc.elapsed), 1))

\* extract.py get_audio_files: one Audio per <audio> element, then the check
\* of every file name against the last element's
get_audio_files(tags, start_time, id_prefix) ==
    IF \E i \in 1..Len(tags) : ~ tags[i].parsable
    THEN Raised("InvalidOperation")
    ELSE LET audios ==
                 [i \in 1..Len(tags) |->
                     [identifier |-> <<id_prefix, tags[i].id>>,
                      file_name  |-> tags[i].src,
                      start      |-> tags[i].clip_begin + start_time,
                      end        |-> tags[i].clip_end + start_time]]
         IN  IF \A i \in 1..Len(audios) :
                    audios[i].file_name = tags[Len(tags)].src
             THEN Returned(audios)
             ELSE Raised("ValueError")

\* readaisy.py get_audio: one Audio for the document, named after the first
\* <audio> element, with one Segment per element
get_audio(tags, dur, start_time, id_prefix) ==
    IF tags = <<>> THEN Raised("IndexError")
    ELSE IF \E i \in 1..Len(tags) : ~ tags[i].parsable
    THEN Raised("InvalidOperation")
    ELSE Returned(
           [file_name |-> tags[1].src,
            start     |-> start_time,
            length    |-> dur,
            segments  |->
                [i \in 1..Len(tags) |->
                    [identifier |-> <<id_prefix, tags[i].id>>,
                     start      |-> tags[i].clip_begin + start_time,
                     end        |-> tags[i].clip_end + start_time]]])

SrcNames == {"a.mp3", "b.mp3"}

\* The documents of SpecSeg: up to MaxAudioTags elements, any of the two file
\* names, one of two clips, ids numbered in document order
SegDocs ==
    UNION {{[i \in 1..k |-> AudioTag(src[i], b[i], b[i] + 1, i, TRUE)] :
               src \in [1..k -> SrcNames], b \in [1..k -> {0, 1}]} :
           k \in 0..MaxAudioTags}

InitSeg ==
    /\ seg_tags \in SegDocs
    /\ seg_offset \in {0, 5}
    /\ extract_result = Raised("not called")
    /\ readaisy_result = Raised("not called")
    /\ xpc = "start"
    /\ rpc = "start"

CallGetAudioFiles ==
    /\ xpc = "start"
    /\ extract_result' = get_audio_files(seg_tags, seg_offset, "p")
    /\ xpc' = "done"
    /\ UNCHANGED <<seg_tags, seg_offset, readaisy_result, rpc>>

CallGetAudio ==
    /\ rpc = "start"
    /\ readaisy_result' = get_audio(seg_tags, 2, seg_offset, "p")
    /\ rpc' = "done"
    /\ UNCHANGED <<seg_tags, seg_offset, extract_result, xpc>>

ParkedSeg ==
    /\ seg_tags = <<>>
    /\ seg_offset = 0
    /\ extract_result = Raised("parked")
    /\ readaisy_result = Raised("parked")
    /\ xpc = "parked"
    /\ rpc = "parked"

-----------------------------------------------------------------------------
(* The run: main, process_books (extract.py), process_book /               *)
(* process_chapter / process_subheading (readaisy.py)                      *)

MaxNccFiles == 2
MaxNccHeadings == 4
MaxBookHeadings == 4

\* A synchronization document: its ncc:totalElapsedTime meta element (absent
\* when has_meta is FALSE), the seq element's dur and its audio elements
SmilDoc(has_meta, elapsed, dur, tags) ==
    [has_meta |-> has_meta, elapsed |-> elapsed, dur |-> dur,
     audio_tags |-> tags]

OrderedTags ==
    <<AudioTag("a.mp3", 0, 1, 1, TRUE), AudioTag("a.mp3", 1, 2, 2, TRUE)>>
UnorderedTags ==
    <<AudioTag("a.mp3", 1, 2, 1, TRUE), AudioTag("a.mp3", 0, 1, 2, TRUE)>>

\* Elapsed times "00:00:00", "00:02" and "01:00"
ElapsedTexts == {<<0, 0, 0>>, <<0, 2>>, <<1, 0>>}

NoMetaDoc  == SmilDoc(FALSE, <<>>, 2, OrderedTags)
NoAudioDoc == SmilDoc(TRUE, <<0, 2>>, 2, <<>>)
BadAttrDoc ==
    SmilDoc(TRUE, <<0, 2>>, 2, <<AudioTag("a.mp3", 0, 1, 1, FALSE)>>)
MalformedDocs == {NoMetaDoc, NoAudioDoc, BadAttrDoc}

\* The synchronization documents a section's file may hold: well-formed
\* ones of every elapsed time and clip order for the single book, one
\* well-formed and every malformed one for the run
SmilDocsOf(scn) ==
    IF scn = "book"
    THEN {SmilDoc(TRUE, e, 2, t) :
              e \in ElapsedTexts, t \in {OrderedTags, UnorderedTags}}
    ELSE {SmilDoc(TRUE, <<0, 2>>, 2, OrderedTags)} \cup MalformedDocs

\* The heading lists an NCC.HTML may hold
NccDocsOf(scn) ==
    IF scn = "book"
    THEN {h \in SeqsUpTo(Levels, MaxBookHeadings) :
              /\ Len(h) >= 2
              /\ h[1] = 1
              /\ \A i \in 2..Len(h) : h[i] # 1}
    ELSE SeqsUpTo(Levels, MaxNccHeadings)

\* A plausible slip: the count restarts from the next number only
BookStartAfterOneMore(n, books) == n + 1

\* book_start_number += len(smils)
BookStartAfter(n, books) == n + Len(books)

\* A plausible slip: the anchor itself is taken as the offset
RelStartAbsolute(anchor, bstart) == anchor

\* A plausible slip: the operands are swapped
RelStartSwapped(anchor, bstart) == bstart - anchor

\* rel_start = get_start_time(smil_content) - book_start
RelStart(anchor, bstart) == anchor - bstart

\* A plausible slip: the copy is not made
CopyNothing(files, name) == files

\* copy_audio_file: shutil.copy2 into the book directory
copy_audio_file(files, name) == files \cup {name}

\* The steps of one section up to its copy.  The book's own document is
\* extracted at offset 0 before its start time is read; a chapter's or
\* subheading's start time is read first.  extract.py then takes
\* audio_files[0], which fails on an empty list.
ProcessSmil(var, doc, level, bstart, prefix) ==
    LET st  == get_start_time(doc)
        rel == IF level = 1 THEN 0 ELSE RelStart(st.value, bstart)
        a   == IF var = "extract"
               THEN get_audio_files(doc.audio_tags, rel, prefix)
               ELSE get_audio(doc.audio_tags, doc.dur, rel, prefix)
    IN  IF level # 1 /\ st.raised # "none" THEN Raised(st.raised)
        ELSE IF a.raised # "none" THEN Raised(a.raised)
        ELSE IF st.raised # "none" THEN Raised(st.raised)
        ELSE IF var = "extract" /\ a.value = <<>> THEN Raised("IndexError")
        ELSE Returned([anchor |-> st.value, audio |-> a.value])

\* audio_files after a section: extract.py concatenates the flat lists
\* (audio_files += chapter_audio_files), readaisy.py appends the Audio with
\* its file_name set to the new name
Extended(var, files, audio, name) ==
    IF var = "extract" THEN files \o audio
    ELSE Append(files, [audio EXCEPT !.file_name = name])

\* Where the traversal goes after the section at (c, s) of book: the first
\* subheading of the chapter, the next chapter, or the end of the book
AfterSection(book, c, s) ==
    LET chapters == book.children IN
    IF c >= 1 /\ s < Len(chapters[c].children)
    THEN [pc |-> "sub", ci |-> c, si |-> s + 1]
    ELSE IF c < Len(chapters)
    THEN [pc |-> "chapter", ci |-> c + 1, si |-> 0]
    ELSE [pc |-> "write", ci |-> c, si |-> s]

NoError == [index |-> 0, ci |-> 0, si |-> 0, error |-> "none"]

InitRun(scn) ==
    /\ scenario = scn
    /\ variant \in {"extract", "readaisy"}
    /\ ncc_left \in (IF scn = "book" THEN {1} ELSE 0..MaxNccFiles)
    /\ smils = <<>>
    /\ book_start_number = 1
    /\ bi = 0
    /\ ci = 0
    /\ si = 0
    /\ pc = "main"
    /\ book_start = 0
    /\ audio_files = <<>>
    /\ smil_docs = <<>>
    /\ out_files = {}
    /\ written = {}
    /\ emitted = <<>>
    /\ raised = NoError

\* A plausible slip: the exception is swallowed and the loop goes on with
\* the next book
SkipBook(index, c, s, e) ==
    /\ pc' = "books"
    /\ bi' = bi + 1
    /\ raised' = raised
    /\ UNCHANGED <<scenario, variant, ncc_left, smils, book_start_number, ci,
                   si, book_start, audio_files, smil_docs, written>>

\* No function catches an exception: it leaves main() and the run ends
Propagate(index, c, s, e) ==
    /\ pc' = "raised"
    /\ raised' = [index |-> index, ci |-> c, si |-> s, error |-> e]
    /\ UNCHANGED <<scenario, variant, ncc_left, smils, book_start_number, bi,
                   ci, si, book_start, audio_files, smil_docs, written>>

RECURSIVE Untitled(_)
\* A list of Smil objects without what identifies their headings: the run
\* reads a Smil's level and children; its title and file_name only name the
\* files to read and to write, and the document read for a section is any
\* of SmilDocsOf, the file written the section's place in the tree
Untitled(list) ==
    [k \in 1..Len(list) |->
        [level |-> list[k].level, children |-> Untitled(list[k].children)]]

\* for ncc_file in ncc_files: smils = get_smils(ncc_file)
NextNcc ==
    /\ pc = "main"
    /\ ncc_left > 0
    /\ \E h \in NccDocsOf(scenario) : smils' = Untitled(get_smils(h))
    /\ ncc_left' = ncc_left - 1
    /\ bi' = 1
    /\ pc' = "books"
    /\ UNCHANGED <<scenario, variant, book_start_number, ci, si, book_start,
                   audio_files, smil_docs, out_files, written, emitted, raised>>

\* The loop over the books of this document is over:
\* book_start_number += len(smils)
BooksDone ==
    /\ pc = "books"
    /\ bi > Len(smils)
    /\ book_start_number' = BookStartAfter(book_start_number, smils)
    /\ pc' = "main"
    /\ UNCHANGED <<scenario, variant, ncc_left, smils, bi, ci, si, book_start,
                   audio_files, smil_docs, out_files, written, emitted, raised>>

\* One section: parse its document, extract, copy the first segment's file
\* under its new name, extend the book's list.  lvl is 1 for the book's own
\* document, 2 for a chapter, 3 for a subheading.
Section(lvl, index, c, s) ==
    \E doc \in SmilDocsOf(scenario), copy_ok \in BOOLEAN :
        LET r    == ProcessSmil(variant, doc, lvl, book_start, <<c, s>>)
            name == <<index, c, s>>
        IN  IF r.raised # "none"
            THEN /\ copy_ok
                 /\ Propagate(index, c, s, r.raised)
                 /\ UNCHANGED out_files
            ELSE IF ~ copy_ok
            THEN \* shutil.copy2 failed: the destination may hold a partial file
                 /\ Propagate(index, c, s, "OSError")
                 /\ out_files' \in {out_files, out_files \cup {name}}
            ELSE LET next == AfterSection(smils[bi], c, s) IN
                 /\ out_files' = copy_audio_file(out_files, name)
                 /\ audio_files' =
                        Extended(variant, IF lvl = 1 THEN <<>> ELSE audio_files,
                                 r.value.audio, name)
                 /\ smil_docs' = Append(IF lvl = 1 THEN <<>> ELSE smil_docs, doc)
                 /\ book_start' = IF lvl = 1 THEN r.value.anchor ELSE book_start
                 /\ pc' = next.pc
                 /\ ci' = next.ci
                 /\ si' = next.si
                 /\ UNCHANGED <<scenario, variant, ncc_left, smils,
                                book_start_number, bi, written, raised>>

\* for index, book in enumerate(smils, start=book_start_number): the book
\* directory is made and the book's own document processed
ProcessBook ==
    /\ pc = "books"
    /\ bi <= Len(smils)
    /\ LET index == book_start_number + bi - 1 IN
       /\ emitted' = Append(emitted, index)
       /\ Section(1, index, 0, 0)

ProcessChapter ==
    /\ pc = "chapter"
    /\ Section(2, book_start_number + bi - 1, ci, 0)
    /\ UNCHANGED emitted

ProcessSubheading ==
    /\ pc = "sub"
    /\ Section(3, book_start_number + bi - 1, ci, si)
    /\ UNCHANGED emitted

\* The marker table (extract.py) or the REAPER project (readaisy.py) of the
\* book is written, and the loop goes on with the next book
WriteArtifact ==
    /\ pc = "write"
    /\ written' = written \cup {book_start_number + bi - 1}
    /\ bi' = bi + 1
    /\ pc' = "books"
    /\ UNCHANGED <<scenario, variant, ncc_left, smils, book_start_number, ci,
                   si, book_start, audio_files, smil_docs, out_files, emitted,
                   raised>>

\* Every NCC.HTML was visited: main() returns
Finish ==
    /\ pc = "main"
    /\ ncc_left = 0
    /\ pc' = "done"
    /\ UNCHANGED <<scenario, variant, ncc_left, smils, book_start_number, bi,
                   ci, si, book_start, audio_files, smil_docs, out_files,
                   written, emitted, raised>>

ParkedRun ==
    /\ scenario = "parked"
    /\ variant = "parked"
    /\ ncc_left = 0
    /\ smils = <<>>
    /\ book_start_number = 1
    /\ bi = 0
    /\ ci = 0
    /\ si = 0
    /\ pc = "parked"
    /\ book_start = 0
    /\ audio_files = <<>>
    /\ smil_docs = <<>>
    /\ out_files = {}
    /\ written = {}
    /\ emitted = <<>>
    /\ raised = NoError

-----------------------------------------------------------------------------
(* The file names of one book's output directory: process_book,            *)
(* process_chapter, process_subheading (readaisy.py) and process_books     *)
(* (extract.py)                                                            *)

MaxChapters == 2
MaxSubheadings == 1
MaxTitleLen == 1

RECURSIVE Str(_)
\* str(n) of a non-negative integer: its decimal digits ("0" is code 48)
Str(n) == IF n < 10 THEN <<48 + n>> ELSE Str(n \div 10) \o <<48 + (n % 10)>>

\* str.isdigit(): a non-empty string of digits only
IsDigit(s) == s # <<>> /\ \A i \in 1..Len(s) : s[i] \in 48..57

\* str.zfill(width): zeros on the left up to the width, after a leading
\* sign ("+" is code 43) if there is one
ZFill(s, width) ==
    IF Len(s) >= width
    THEN s
    ELSE LET zeros == [i \in 1..(width - Len(s)) |-> 48] IN
         IF s # <<>> /\ s[1] \in {43, Hyphen}
         THEN <<s[1]>> \o zeros \o Tail(s)
         ELSE zeros \o s

\* " - ", which every name puts between its parts
Dash == <<Space, Hyphen, Space>>

\* os.path.splitext(name)[1]: from the last period of the last path
\* component on, unless only periods precede it there ("/" is code 47)
SplitExt(name) ==
    LET seps == {i \in 1..Len(name) : name[i] = 47}
        base == IF seps = {} THEN 1
                ELSE 1 + CHOOSE i \in seps : \A j \in seps : j <= i
        dots == {i \in base..Len(name) : name[i] = Period}
    IN  IF dots = {} THEN <<>>
        ELSE LET d == CHOOSE i \in dots : \A j \in dots : j <= i IN
             IF \A i \in base..(d - 1) : name[i] = Period
             THEN <<>>
             ELSE SubSeq(name, d, Len(name))

\* chapter_padding, subheading_padding: len(str(len(children)))
Padding(children) == Len(Str(Len(children)))

\* The name the book's own file is copied to
BookFileName(var, book, audio_name) ==
    LET chapter_padding == Padding(book.children)
        book_prefix ==
            IF var = "readaisy"
            THEN ZFill(Str(0), chapter_padding) \o Dash \o book.title
            ELSE <<48, 48>> \o Dash \o book.title
    IN  make_safe_filename(book_prefix \o SplitExt(audio_name))

\* chapter_prefix: readaisy.py takes the title when it is a digit string and
\* the chapter's position otherwise; extract.py always takes the title
ChapterPrefix(var, book, index) ==
    LET chapter == book.children[index]
        chapter_padding == Padding(book.children)
    IN  IF var = "readaisy"
        THEN ZFill(IF IsDigit(chapter.title) THEN chapter.title
                   ELSE Str(index), chapter_padding)
        ELSE ZFill(chapter.title, chapter_padding)

\* The name a chapter's file is copied to
ChapterFileName(var, book, index, audio_name) ==
    LET chapter == book.children[index]
        subheading_padding == Padding(chapter.children)
    IN  make_safe_filename(ChapterPrefix(var, book, index) \o Dash
                           \o ZFill(Str(0), subheading_padding)
                           \o SplitExt(audio_name))

\* The name a subheading's file is copied to
SubheadingFileName(var, book, index, subheading_index, audio_name) ==
    LET chapter == book.children[index]
        subheading == chapter.children[subheading_index]
        subheading_padding == Padding(chapter.children)
    IN  make_safe_filename(ChapterPrefix(var, book, index) \o Dash
                           \o ZFill(Str(subheading_index), subheading_padding)
                           \o Dash \o subheading.title
                           \o SplitExt(audio_name))

\* Titles: heading.a.text.strip() over the characters "1", "2" and "a"
TitleChars == {49, 50, 97}
Titles == SeqsUpTo(TitleChars, MaxTitleLen)

\* The source audio files a section's first clip can name: "a.m", "b.w"
AudioNames == {<<97, Period, 109>>, <<98, Period, 119>>}

\* A Smil as the naming reads it: its title and its children
Titled(title, kids) == [title |-> title, children |-> kids]

\* The books get_smils can return, up to the bounds
TitledSubheadings == {Titled(t, <<>>) : t \in Titles}
TitledChapters ==
    {Titled(t, kids) : t \in Titles,
                       kids \in SeqsUpTo(TitledSubheadings, MaxSubheadings)}
TitledBooks ==
    {Titled(t, kids) : t \in Titles,
                       kids \in SeqsUpTo(TitledChapters, MaxChapters)}

InitNames ==
    /\ name_variant \in {"extract", "readaisy"}
    /\ name_book \in TitledBooks
    /\ name_ci = 0
    /\ name_si = 0
    /\ name_pc = "book"
    /\ dir_files = {}
    /\ copies = 0

\* One copy_audio_file into the book's directory, then on to the section
\* the loops visit next
CopyAs(new_file_name) ==
    LET nxt == AfterSection(name_book, name_ci, name_si) IN
    /\ dir_files' = copy_audio_file(dir_files, new_file_name)
    /\ copies' = copies + 1
    /\ name_pc' = nxt.pc
    /\ name_ci' = nxt.ci
    /\ name_si' = nxt.si
    /\ UNCHANGED <<name_variant, name_book>>

NameBook ==
    /\ name_pc = "book"
    /\ \E audio_name \in AudioNames :
           CopyAs(BookFileName(name_variant, name_book, audio_name))

NameChapter ==
    /\ name_pc = "chapter"
    /\ \E audio_name \in AudioNames :
           CopyAs(ChapterFileName(name_variant, name_book, name_ci,
                                  audio_name))

NameSubheading ==
    /\ name_pc = "sub"
    /\ \E audio_name \in AudioNames :
           CopyAs(SubheadingFileName(name_variant, name_book, name_ci,
                                     name_si, audio_name))

ParkedNames ==
    /\ name_variant = "parked"
    /\ name_book = Titled(<<>>, <<>>)
    /\ name_ci = 0
    /\ name_si = 0
    /\ name_pc = "parked"
    /\ dir_files = {}
    /\ copies = 0

-----------------------------------------------------------------------------
(* Claims about get_smils *)

\* The tree the flat list describes, stated from the list alone
IsBook(h, i) == h[i] = 1 /\ i < Len(h) /\ h[i + 1] # 1

ExpectedSubs(h, c) ==
    SortedSeq({k \in (c + 1)..Len(h) :
                  h[k] = 3 /\ \A m \in (c + 1)..k : h[m] = 3})

ExpectedChapters(h, b) ==
    SortedSeq({j \in (b + 1)..Len(h) :
                  h[j] = 2 /\ \A m \in (b + 1)..j : h[m] # 1})

ExpectedTree(h) ==
    LET books == SortedSeq({i \in 1..Len(h) : IsBook(h, i)})
        Sub(p)     == Smil(3, p, <<>>)
        Chapter(p) == LET ks == ExpectedSubs(h, p)
                      IN  Smil(2, p, [k \in 1..Len(ks) |-> Sub(ks[k])])
        Book(p)    == LET cs == ExpectedChapters(h, p)
                      IN  Smil(1, p, [k \in 1..Len(cs) |-> Chapter(cs[k])])
    IN  [k \in 1..Len(books) |-> Book(books[k])]

\* C1: for every flat list of headings with levels 1..3, get_smils returns
\* exactly one book per level-1 heading whose next heading exists and is not
\* level 1, with the level-2 headings up to the next level-1 heading as its
\* chapters and the level-3 headings up to the next level-1 or level-2
\* heading as each chapter's subheadings, all in document order; every other
\* heading is dropped.
C1_TreeShape == tpc = "done" => smil_result = ExpectedTree(headings)

\* C1 witness: a list with a dropped level-1 heading, an orphan, and a book
\* with a chapter that has a subheading has been built
C1_Witness ==
    /\ tpc = "done"
    /\ headings = <<3, 1, 1, 2, 3>>
    /\ Len(smil_result) = 1
    /\ Len(smil_result[1].children) = 1
    /\ Len(smil_result[1].children[1].children) = 1

\* C2 (as claimed): every book returned by get_smils has at least one
\* chapter.
C2_EveryBookHasChapter ==
    tpc = "done" =>
        \A k \in 1..Len(smil_result) : Len(smil_result[k].children) >= 1

\* C2 (amended): every book returned is a level-1 heading immediately
\* followed by a level-2 or level-3 heading; it has at least one chapter when
\* that heading is level 2, and it has no chapter exactly when no level-2
\* heading lies between it and the next level-1 heading.
C2_BookFollowedBySubordinate ==
    tpc = "done" =>
        \A k \in 1..Len(smil_result) :
            LET b == smil_result[k].id IN
            /\ b < Len(headings)
            /\ headings[b + 1] \in {2, 3}
            /\ (headings[b + 1] = 2 => Len(smil_result[k].children) >= 1)
            /\ (Len(smil_result[k].children) = 0 <=>
                  ~ \E j \in (b + 1)..Len(headings) :
                        headings[j] = 2 /\ \A m \in (b + 1)..j : headings[m] # 1)

\* C2 witness: a level-1 heading followed by a level-3 heading and then a
\* level-1 heading gave a book without chapters
C2_Witness ==
    /\ tpc = "done"
    /\ headings = <<1, 3, 1>>
    /\ Len(smil_result) = 1
    /\ smil_result[1].children = <<>>

-----------------------------------------------------------------------------
(* Claims about make_safe_filename *)

\* C6: make_safe_filename is idempotent: applying it to its own result
\* changes nothing.
C6_Idempotent == spc = "twice" => safe2 = safe

\* C6 witness: an input with ": ", a run of colons and trailing periods and
\* spaces was changed by the first application and sanitized twice
C6_Witness ==
    /\ spc = "twice"
    /\ filename = <<Colon, Colon, Space, Period>>
    /\ safe # filename
    /\ safe # <<>>

\* The characters the claim lists: < > : " / \ | ? * ^ { } and 0..31
ClaimedDisallowed ==
    {60, 62, 58, 34, 47, 92, 124, 63, 42, 94, 123, 125} \cup (0..31)

\* The characters the translation table holds: < > : " / \ | ? * ^ and 0..31
TableDisallowed ==
    {60, 62, 58, 34, 47, 92, 124, 63, 42, 94} \cup (0..31)

\* C7 (as claimed): the result holds none of < > : " / \ | ? * ^ { } nor a
\* control character, and does not end with a period or a space.
C7_NoClaimedDisallowed ==
    spc = "once" =>
        /\ \A i \in 1..Len(safe) : safe[i] \notin ClaimedDisallowed
        /\ (safe # <<>> => safe[Len(safe)] \notin {Period, Space})

\* C7 (amended): the result holds none of < > : " / \ | ? * ^ nor a control
\* character, and does not end with a period or a space; braces are kept.
C7_NoTableDisallowed ==
    spc = "once" =>
        /\ \A i \in 1..Len(safe) : safe[i] \notin TableDisallowed
        /\ (safe # <<>> => safe[Len(safe)] \notin {Period, Space})
        /\ \A c \in {LBrace, RBrace} :
              Cardinality({i \in 1..Len(safe) : safe[i] = c})
                  = Cardinality({i \in 1..Len(filename) : filename[i] = c})

\* C7 witness: an input with a colon, a control character, a brace and a
\* trailing period was sanitized to a non-empty name
C7_Witness ==
    /\ spc = "once"
    /\ filename = <<Colon, 9, LBrace, Period>>
    /\ safe = <<Underscore, Underscore, LBrace>>

-----------------------------------------------------------------------------
(* Claims about the segment extractors *)

MixedSources(tags) ==
    \E i, j \in 1..Len(tags) : tags[i].src # tags[j].src

\* What the claim asks of one extractor's outcome, given the segments it
\* returned (<<>> when it raised)
RejectsMixedKeepsUniform(res, segments) ==
    /\ MixedSources(seg_tags) =>
           res.raised # "none" /\ segments = <<>>
    /\ (~ MixedSources(seg_tags) /\ Len(seg_tags) >= 1) =>
           /\ res.raised = "none"
           /\ Len(segments) = Len(seg_tags)
           /\ \A i \in 1..Len(seg_tags) :
                  /\ segments[i].identifier = <<"p", seg_tags[i].id>>
                  /\ segments[i].start = seg_tags[i].clip_begin + seg_offset

SegmentsOf(res) == IF res.raised = "none" THEN res.value.segments ELSE <<>>

\* C3 (extract.py alone): get_audio_files fails on a document that mixes two
\* source file names, wherever the diverging name is, and returns the N
\* segments of a document with one name, in document order.
C3_GetAudioFilesChecks ==
    xpc = "done" => RejectsMixedKeepsUniform(extract_result, extract_result.value)

\* C3: segment extraction of a document whose audio elements reference two or
\* more distinct source file names fails and returns no segments, and a
\* document with one name yields its N segments in order, for both
\* extractors (get_audio_files and get_audio).
C3_BothExtractorsCheck ==
    /\ xpc = "done" =>
           RejectsMixedKeepsUniform(extract_result, extract_result.value)
    /\ rpc = "done" =>
           RejectsMixedKeepsUniform(readaisy_result, SegmentsOf(readaisy_result))

-----------------------------------------------------------------------------
(* Claims about the per-book timeline *)

RECURSIVE Concat(_)
\* The concatenation of a sequence of sequences
Concat(ss) == IF ss = <<>> THEN <<>> ELSE Head(ss) \o Concat(Tail(ss))

\* The start and end of every segment of the book's list, in list order
SegmentTimes(var, files) ==
    LET flat == IF var = "extract" THEN files
                ELSE Concat([k \in 1..Len(files) |-> files[k].segments])
    IN  [i \in 1..Len(flat) |-> <<flat[i].start, flat[i].end>>]

AnchorOf(doc) == get_start_time(doc).value

\* The clips of document k shifted by (its anchor - the book's anchor)
ShiftedClips(docs, k) ==
    LET off  == AnchorOf(docs[k]) - AnchorOf(docs[1])
        tags == docs[k].audio_tags
    IN  [i \in 1..Len(tags) |->
            <<tags[i].clip_begin + off, tags[i].clip_end + off>>]

\* C4: every segment of the assembled per-book list has start = its local
\* clip-begin + (its section's elapsed-time anchor - the book's anchor) and
\* end = its local clip-end + the same offset; the book's own segments are
\* shifted by 0 and subheadings are shifted relative to the book.
C4_BookRelativeOffsets ==
    SegmentTimes(variant, audio_files) =
        Concat([k \in 1..Len(smil_docs) |-> ShiftedClips(smil_docs, k)])

\* C4 witness: a book whose anchor is not 0, a chapter and its subheading
\* have been assembled
C4_Witness ==
    /\ pc = "write"
    /\ ci = 1 /\ si = 1
    /\ Len(smil_docs) = 3
    /\ AnchorOf(smil_docs[1]) = 2
    /\ AnchorOf(smil_docs[2]) = 60
    /\ AnchorOf(smil_docs[3]) = 60
    /\ Len(SegmentTimes(variant, audio_files)) = 6

NonDecreasingStarts(times) ==
    \A i \in 1..(Len(times) - 1) : times[i][1] <= times[i + 1][1]

\* C5 (as claimed): for any book, the per-book segment list in traversal
\* order has non-decreasing start values.
C5_StartsNonDecreasing ==
    NonDecreasingStarts(SegmentTimes(variant, audio_files))

\* The input is laid out in time order: in every document the clips begin at
\* 0 or later, in non-decreasing order, none ending before it begins, and
\* every section's anchor is at least the previous section's anchor plus
\* that section's last clip-end.
InputInTimeOrder(docs) ==
    /\ \A k \in 1..Len(docs) :
           LET tags == docs[k].audio_tags IN
           /\ \A i \in 1..Len(tags) :
                  0 <= tags[i].clip_begin /\ tags[i].clip_begin <= tags[i].clip_end
           /\ \A i \in 1..(Len(tags) - 1) :
                  tags[i].clip_begin <= tags[i + 1].clip_begin
    /\ \A k \in 1..(Len(docs) - 1) :
           LET tags == docs[k].audio_tags IN
           AnchorOf(docs[k + 1]) >=
               AnchorOf(docs[k]) + (IF tags = <<>> THEN 0
                                    ELSE tags[Len(tags)].clip_end)

\* C5 (amended): when the book's documents are laid out in time order, the
\* per-book segment list in traversal order has non-decreasing start values.
C5_StartsNonDecreasingInOrder ==
    InputInTimeOrder(smil_docs) =>
        NonDecreasingStarts(SegmentTimes(variant, audio_files))

\* C5 witness: a book, a chapter and a subheading laid out in time order
\* have been assembled
C5_Witness ==
    /\ pc = "write"
    /\ ci = 1 /\ si = 1
    /\ Len(smil_docs) = 3
    /\ InputInTimeOrder(smil_docs)
    /\ AnchorOf(smil_docs[2]) = 2
    /\ Len(SegmentTimes(variant, audio_files)) = 6

-----------------------------------------------------------------------------
(* Claims about the run *)

\* C8: the k-th book emitted over the run gets index k: no gap, no repeat;
\* a navigation document without books consumes no index, and a document's
\* first book gets the number of books emitted before it plus 1.
C8_ConsecutiveIndices ==
    /\ \A k \in 1..Len(emitted) : emitted[k] = k
    /\ pc \in {"main", "done"} => book_start_number = Len(emitted) + 1
    /\ (pc = "books" /\ bi = 1) => book_start_number = Len(emitted) + 1

\* C8 witness: a run over two navigation documents has given three books
\* their indices
C8_Witness ==
    /\ pc = "done"
    /\ emitted = <<1, 2, 3>>
    /\ written = {1, 2, 3}

\* C9: a book is never silently skipped: when a step of a book fails the
\* exception leaves the run, no marker table or project is written for that
\* book, and nothing later is processed; every book before the one being
\* processed has its marker table or project.
C9_NoSilentSkip ==
    /\ \A k \in 1..(Len(emitted) - 1) : emitted[k] \in written
    /\ pc = "raised" =>
           /\ raised.error # "none"
           /\ raised.index = emitted[Len(emitted)]
           /\ raised.index \notin written
           /\ \A f \in out_files : f[1] <= raised.index
    /\ pc = "done" =>
           /\ raised = NoError
           /\ \A k \in 1..Len(emitted) : emitted[k] \in written

\* C9 witness: the second book failed at its first chapter on a document
\* without audio elements, with a navigation document still to visit
C9_Witness ==
    /\ pc = "raised"
    /\ raised = [index |-> 2, ci |-> 1, si |-> 0, error |-> "IndexError"]
    /\ ncc_left = 1
    /\ written = {1}

\* C10 (as claimed): when processing fails at a chapter or subheading of a
\* book, the output tree holds no renamed audio file of that book.
C10_NoFilesAfterFailure ==
    (pc = "raised" /\ raised.ci >= 1) =>
        \A f \in out_files : f[1] # raised.index

\* The sections of book that precede section (c, s) in traversal order
SectionsBefore(book, c, s) ==
    {<<0, 0>>}
    \cup {<<c1, s1>> \in (1..c) \X (0..Len(book.children[c].children)) :
              /\ s1 <= Len(book.children[c1].children)
              /\ (c1 < c \/ s1 < s)}
    \cup UNION {{<<c1, s1>> : s1 \in 0..Len(book.children[c1].children)} :
                   c1 \in 1..(c - 1)}

\* C10 (amended): when processing fails at a chapter or subheading of a
\* book, no marker table or project is written for the book, and the renamed
\* audio files of the book itself and of every section processed before the
\* failing one remain in the output tree.
C10_EarlierFilesRemain ==
    (pc = "raised" /\ raised.ci >= 1) =>
        /\ raised.index \notin written
        /\ \A sec \in SectionsBefore(smils[bi], raised.ci, raised.si) :
               <<raised.index, sec[1], sec[2]>> \in out_files

\* C10 witness: a book failed at the first subheading of its first chapter
\* after the book's and the chapter's files were copied
C10_Witness ==
    /\ pc = "raised"
    /\ raised.ci = 1 /\ raised.si = 1
    /\ raised.error = "RuntimeError"
    /\ {<<raised.index, 0, 0>>, <<raised.index, 1, 0>>} \subseteq out_files

-----------------------------------------------------------------------------
(* Claims about the file names of one book's output directory *)

\* The sections of a book: the book, its chapters, their subheadings
RECURSIVE SectionCount(_)
SectionCount(smil) ==
    1 + (LET kids == smil.children
             n == [i \in 0..Len(kids) |->
                      IF i = 0 THEN 0 ELSE SectionCount(kids[i])]
             sum[i \in 0..Len(kids)] ==
                 IF i = 0 THEN 0 ELSE sum[i - 1] + n[i]
         IN  sum[Len(kids)])

\* C11: within one book's output directory the files of distinct sections
\* have pairwise distinct names, for every tree and every choice of titles:
\* every copy so far added a file of its own, no copy overwrote an earlier
\* one, and once all sections are copied the directory holds one audio file
\* per section, 1 + C + S for C chapters and S subheadings
C11_DistinctNames ==
    /\ name_pc \in {"book", "chapter", "sub", "write"} =>
           Cardinality(dir_files) = copies
    /\ name_pc = "write" =>
           Cardinality(dir_files) = SectionCount(name_book)

-----------------------------------------------------------------------------
(* Specifications *)

NextTree == CallGetSmils /\ UNCHANGED <<sanVars, segVars, runVars, nameVars>>

TreeInit == InitTree /\ ParkedSan /\ ParkedSeg /\ ParkedRun /\ ParkedNames

SpecTree == TreeInit /\ [][NextTree]_vars

NextSan ==
    \/ Sanitize /\ UNCHANGED <<treeVars, segVars, runVars, nameVars>>
    \/ SanitizeAgain /\ UNCHANGED <<treeVars, segVars, runVars, nameVars>>

SanInit == InitSan /\ ParkedTree /\ ParkedSeg /\ ParkedRun /\ ParkedNames

SpecSan == SanInit /\ [][NextSan]_vars

NextSeg ==
    \/ CallGetAudioFiles /\ UNCHANGED <<treeVars, sanVars, runVars, nameVars>>
    \/ CallGetAudio /\ UNCHANGED <<treeVars, sanVars, runVars, nameVars>>

SegInit == InitSeg /\ ParkedTree /\ ParkedSan /\ ParkedRun /\ ParkedNames

SpecSeg == SegInit /\ [][NextSeg]_vars

NextRun ==
    \/ NextNcc /\ UNCHANGED <<treeVars, sanVars, segVars, nameVars>>
    \/ BooksDone /\ UNCHANGED <<treeVars, sanVars, segVars, nameVars>>
    \/ ProcessBook /\ UNCHANGED <<treeVars, sanVars, segVars, nameVars>>
    \/ ProcessChapter /\ UNCHANGED <<treeVars, sanVars, segVars, nameVars>>
    \/ ProcessSubheading /\ UNCHANGED <<treeVars, sanVars, segVars, nameVars>>
    \/ WriteArtifact /\ UNCHANGED <<treeVars, sanVars, segVars, nameVars>>
    \/ Finish /\ UNCHANGED <<treeVars, sanVars, segVars, nameVars>>

\* One book of one navigation document, over synchronization documents with
\* several elapsed times and clip orders
BookInit ==
    InitRun("book") /\ ParkedTree /\ ParkedSan /\ ParkedSeg /\ ParkedNames

SpecBook == BookInit /\ [][NextRun]_vars

\* A whole run over several navigation documents
Init ==
    InitRun("run") /\ ParkedTree /\ ParkedSan /\ ParkedSeg /\ ParkedNames

Spec == Init /\ [][NextRun]_vars

\* The naming of one book's files, over every titled tree up to the bounds
NextNames ==
    \/ NameBook /\ UNCHANGED <<treeVars, sanVars, segVars, runVars>>
    \/ NameChapter /\ UNCHANGED <<treeVars, sanVars, segVars, runVars>>
    \/ NameSubheading /\ UNCHANGED <<treeVars, sanVars, segVars, runVars>>

NamesInit == InitNames /\ ParkedTree /\ ParkedSan /\ ParkedSeg /\ ParkedRun

SpecNames == NamesInit /\ [][NextNames]_vars

=============================================================================
